---------------------------- MODULE Spec2Model ----------------------------
(***************************************************************************)
(* A model of data_cleaning.py, the feature aggregation pipeline of the    *)
(* Dota 2 match predictor.  Every table (a pandas DataFrame) is a sequence *)
(* of records, one per row, in row order.  The aggregators are pure        *)
(* functions of their input tables, so each component has a specification  *)
(* whose initial states draw the input tables from bounded sets and whose  *)
(* actions apply one aggregator each:                                      *)
(*                                                                         *)
(*   SpecEncode   get_hero_selection, get_game_hero_composition,           *)
(*                get_game_hero_info (one match's player rows)             *)
(*   SpecWealth   construct_x_seconds_df, construct_x_seconds_max_wealth,  *)
(*                construct_x_seconds_gold_growth_benchmark                *)
(*   SpecFights   construct_num_team_fights,                               *)
(*                construct_net_death_count_from_teamfights                *)
(*   SpecCarry    construct_role_gold_interaction_df,                      *)
(*                construct_carry_comparison_df,                           *)
(*                construct_max_gold_comparison                            *)
(*   SpecScrape   construct_hero_roles (the scraping loop)                 *)
(*                                                                         *)
(* The variables of the components a specification does not run keep their *)
(* idle (empty) values.  An output variable is <<>> until its aggregator   *)
(* has run and <<result>> afterwards.                                      *)
(***************************************************************************)
EXTENDS Integers, Sequences, FiniteSets, TLC

VARIABLES
    \* the team and selection encoder
    players_df,        \* the player rows (of one match: a group of groupby('match_id'))
    hero_attribute_df, \* hero index -> role -> 0/1, rows 0..NumHeros-1
    hero_selection_row,\* get_hero_selection's row
    hero_composition,  \* get_game_hero_composition's row
    game_hero_info_df, \* get_game_hero_info's table: match, hero, slot, side, role
    \* the time-windowed wealth aggregator, run on two datasets side by side
    players_time_df,   \* run -> the wealth snapshot series
    x_seconds_df,      \* run -> construct_x_seconds_df's table
    x_seconds_max_wealth,   \* run -> construct_x_seconds_max_wealth's table
    gold_growth_benchmark,  \* run -> construct_x_seconds_gold_growth_benchmark's table
    \* the event-window aggregator
    team_fights_df,    \* the team-fight summaries
    teamfight_players_df,   \* the participant records, ten per fight
    num_team_fights_df,     \* construct_num_team_fights's table
    net_death_count_df,     \* construct_net_death_count_from_teamfights's table
    \* the cross-entity comparison engine (it reads game_hero_info_df)
    long_player_gold_df,    \* one row per match and player slot: max_gold
    role_gold_interaction_df,   \* construct_role_gold_interaction_df's table
    carry_comparison_df,    \* construct_carry_comparison_df's result
    max_gold_comparison_df, \* construct_max_gold_comparison's table
    \* construct_hero_roles
    hero_links,        \* the hrefs found on the index page, here 1..L in page order
    hero_roles,        \* the dict link -> list of roles
    pc,                \* where construct_hero_roles stands
    cursor,            \* position of the for loop in hero_links
    unparsable,        \* per link: how many fetches return a page without heroBioRoles
    fetch_count        \* per link: how many times get_hero_roles requested it

scrapeVars == <<hero_links, hero_roles, pc, cursor, unparsable, fetch_count>>

encodeVars == <<players_df, hero_attribute_df, hero_selection_row, hero_composition,
                game_hero_info_df>>

wealthVars == <<players_time_df, x_seconds_df, x_seconds_max_wealth, gold_growth_benchmark>>

fightVars == <<team_fights_df, teamfight_players_df, num_team_fights_df, net_death_count_df>>

carryVars == <<long_player_gold_df, role_gold_interaction_df, carry_comparison_df,
               max_gold_comparison_df>>

vars == <<encodeVars, wealthVars, fightVars, carryVars, scrapeVars>>

(***************************************************************************)
(* The idle values of each component's variables.                          *)
(***************************************************************************)
EncodeIdle ==
    /\ players_df = <<>>
    /\ hero_attribute_df = <<>>
    /\ hero_selection_row = <<>>
    /\ hero_composition = <<>>
    /\ game_hero_info_df = <<>>

WealthIdle ==
    /\ players_time_df = <<>>
    /\ x_seconds_df = <<>>
    /\ x_seconds_max_wealth = <<>>
    /\ gold_growth_benchmark = <<>>

FightsIdle ==
    /\ team_fights_df = <<>>
    /\ teamfight_players_df = <<>>
    /\ num_team_fights_df = <<>>
    /\ net_death_count_df = <<>>

CarryIdle ==
    /\ long_player_gold_df = <<>>
    /\ role_gold_interaction_df = <<>>
    /\ carry_comparison_df = <<>>
    /\ max_gold_comparison_df = <<>>

ScrapeIdle ==
    /\ hero_links = <<>>
    /\ hero_roles = <<>>
    /\ pc = "idle"
    /\ cursor = 0
    /\ unparsable = <<>>
    /\ fetch_count = <<>>

\* What the actions of each component leave alone.
EncodeFrame == UNCHANGED <<wealthVars, fightVars, carryVars, scrapeVars>>

WealthFrame == UNCHANGED <<encodeVars, fightVars, carryVars, scrapeVars>>

FightsFrame == UNCHANGED <<encodeVars, wealthVars, carryVars, scrapeVars>>

CarryFrame ==
    UNCHANGED <<players_df, hero_attribute_df, hero_selection_row, hero_composition,
                wealthVars, fightVars, scrapeVars>>

ScrapeFrame == UNCHANGED <<encodeVars, wealthVars, fightVars, carryVars>>

(***************************************************************************)
(* Generic helpers.                                                        *)
(***************************************************************************)
Range(s) == {s[i] : i \in DOMAIN s}

Min(S) == CHOOSE x \in S : \A y \in S : x <= y

Max(S) == CHOOSE x \in S : \A y \in S : x >= y

RECURSIVE Ascending(_)
\* The elements of a finite set of numbers in ascending order.
Ascending(S) == IF S = {} THEN <<>> ELSE <<Min(S)>> \o Ascending(S \ {Min(S)})

Reverse(s) == [i \in 1..Len(s) |-> s[Len(s) + 1 - i]]

RECURSIVE SeqSum(_)
SeqSum(s) == IF s = <<>> THEN 0 ELSE Head(s) + SeqSum(Tail(s))

\* [f(s[1]), ..., f(s[n])]
Map(f(_), s) == [i \in 1..Len(s) |-> f(s[i])]

(***************************************************************************)
(* The team and selection encoder: assign_player_team, get_hero_selection, *)
(* get_game_hero_composition, get_game_hero_info, applied to the player    *)
(* rows of one match.                                                      *)
(***************************************************************************)
\* The heroes of heros_chart: hero_id runs over 1..NumHeros.
NumHeros == 6

HeroIds == 1..NumHeros

\* The player slots of a match in row order: five Radiant, then five Dire.
PlayerSlots == <<0, 1, 2, 3, 4, 128, 129, 130, 131, 132>>

\* The role vocabulary in column order (sorted, the attribute-like roles removed).
TotalRoles == <<"Carry", "Disabler", "Initiator", "Support">>

\* One row of hero_attribute_df: 1 if the hero takes on the role, else 0.
AttributeRow(roles) == [r \in Range(TotalRoles) |-> IF r \in roles THEN 1 ELSE 0]

\* The role sets the heroes of the model have.
RolePatterns == <<{"Carry"}, {"Disabler", "Support"}, {"Carry", "Initiator"}, {"Initiator"}>>

\* The attribute tables the model draws from: hero index h has pattern h + k.
AttributeTables ==
    {[h \in 0..(NumHeros - 1) |-> AttributeRow(RolePatterns[((h + k) % Len(RolePatterns)) + 1])] :
        k \in 0..(Len(RolePatterns) - 1)}

\* A side's picks with the second pick repeating the first.
WithRepeat(picks) == [picks EXCEPT ![2] = picks[1]]

\* The picks of one side: five distinct heroes in ascending or descending slot
\* order, or five picks of which two are the same hero.
SidePicks ==
    UNION {{Ascending(S), Reverse(Ascending(S)), WithRepeat(Ascending(S))} :
              S \in {T \in SUBSET HeroIds : Cardinality(T) = 5}}

\* The ten player rows of match m as the raw table holds them.
MatchPlayers(m, radiant, dire) ==
    [i \in 1..10 |-> [match_id |-> m,
                      hero_id |-> IF i <= 5 THEN radiant[i] ELSE dire[i - 5],
                      player_slot |-> PlayerSlots[i]]]

\* players_df['radiant_player'] = players_df['player_slot'] < 50
assign_player_team(df) ==
    [i \in DOMAIN df |-> [match_id |-> df[i].match_id,
                          hero_id |-> df[i].hero_id,
                          player_slot |-> df[i].player_slot,
                          radiant_player |-> df[i].player_slot < 50]]

HasTeamColumn(df) == \A i \in DOMAIN df : "radiant_player" \in DOMAIN df[i]

IsRadiant(row) == row.radiant_player

IsDire(row) == ~row.radiant_player

HeroIdOf(row) == row.hero_id

\* single_game_player_info[single_game_player_info.radiant_player].hero_id
RadiantHeroIds(info) == Map(HeroIdOf, SelectSeq(info, IsRadiant))

\* single_game_player_info[~single_game_player_info.radiant_player].hero_id
DireHeroIds(info) == Map(HeroIdOf, SelectSeq(info, IsDire))

\* hero_id.values - 1
RadiantIndex(hero_id, num_heros) == hero_id - 1

DireIndexInRadiantBlock(hero_id, num_heros) == hero_id - 1

\* hero_id.values + num_heros - 1
DireIndex(hero_id, num_heros) == hero_id + num_heros - 1

\* The row of 2 * num_heros entries, 1 at every selected position and 0 elsewhere.
get_hero_selection(single_game_player_info, num_heros) ==
    LET radiant_heros == RadiantHeroIds(single_game_player_info)
        dire_heros == DireHeroIds(single_game_player_info)
        hero_selections ==
            {RadiantIndex(radiant_heros[i], num_heros) : i \in DOMAIN radiant_heros}
              \cup {DireIndex(dire_heros[i], num_heros) : i \in DOMAIN dire_heros}
    IN  [p \in 0..(2 * num_heros - 1) |-> IF p \in hero_selections THEN 1 ELSE 0]

\* df.iloc[positions]: the rows at the given positions, or IndexError when a
\* position is out of bounds.
ILoc(df, positions) ==
    IF \E i \in DOMAIN positions : positions[i] \notin DOMAIN df
    THEN [err |-> "IndexError", rows |-> <<>>]
    ELSE [err |-> "", rows |-> [i \in DOMAIN positions |-> df[positions[i]]]]

\* rows.sum().tolist(): the column sums in column order.
ColumnSums(rows) ==
    [c \in 1..Len(TotalRoles) |->
        SeqSum([i \in 1..Len(rows) |-> rows[i][TotalRoles[c]]])]

\* hero_attribute_df.iloc[radiant_heros].sum().tolist() + (the same for dire_heros)
get_game_hero_composition(single_game_player_info, attribute_df) ==
    LET radiant == ILoc(attribute_df, RadiantHeroIds(single_game_player_info))
        dire == ILoc(attribute_df, DireHeroIds(single_game_player_info))
    IN  IF radiant.err # "" \/ dire.err # ""
        THEN [err |-> "IndexError", values |-> <<>>]
        ELSE [err |-> "", values |-> ColumnSums(radiant.rows) \o ColumnSums(dire.rows)]

\* np.argmax over a row: the label of the first column holding the row's maximum.
ArgMax(row) ==
    LET top == Max({row[r] : r \in DOMAIN row})
        first == Min({c \in 1..Len(TotalRoles) : row[TotalRoles[c]] = top})
    IN  TotalRoles[first]

\* game_hero_info_df['role'] = major_roles.iloc[game_hero_info_df.hero_id].reset_index(drop=True)
get_game_hero_info(df, attribute_df) ==
    LET major_roles == [h \in DOMAIN attribute_df |-> ArgMax(attribute_df[h])]
        roles == ILoc(major_roles, Map(HeroIdOf, df))
    IN  IF roles.err # ""
        THEN [err |-> "IndexError", rows |-> <<>>]
        ELSE [err |-> "",
              rows |-> [i \in DOMAIN df |-> [match_id |-> df[i].match_id,
                                             hero_id |-> df[i].hero_id,
                                             player_slot |-> df[i].player_slot,
                                             radiant_player |-> df[i].radiant_player,
                                             role |-> roles.rows[i]]]]

EncodeInit ==
    /\ \E radiant \in SidePicks, dire \in SidePicks :
          players_df = MatchPlayers(0, radiant, dire)
    /\ hero_attribute_df \in AttributeTables
    /\ hero_selection_row = <<>>
    /\ hero_composition = <<>>
    /\ game_hero_info_df = <<>>

AssignPlayerTeam ==
    /\ EncodeFrame
    /\ players_df' = assign_player_team(players_df)
    /\ UNCHANGED <<hero_attribute_df, hero_selection_row, hero_composition, game_hero_info_df>>

GetHeroSelection ==
    /\ EncodeFrame
    /\ HasTeamColumn(players_df)
    /\ hero_selection_row' = <<get_hero_selection(players_df, NumHeros)>>
    /\ UNCHANGED <<players_df, hero_attribute_df, hero_composition, game_hero_info_df>>

GetGameHeroComposition ==
    /\ EncodeFrame
    /\ HasTeamColumn(players_df)
    /\ hero_composition' = <<get_game_hero_composition(players_df, hero_attribute_df)>>
    /\ UNCHANGED <<players_df, hero_attribute_df, hero_selection_row, game_hero_info_df>>

GetGameHeroInfo ==
    /\ EncodeFrame
    /\ HasTeamColumn(players_df)
    /\ game_hero_info_df' = <<get_game_hero_info(players_df, hero_attribute_df)>>
    /\ UNCHANGED <<players_df, hero_attribute_df, hero_selection_row, hero_composition>>

EncodeNext ==
    \/ AssignPlayerTeam
    \/ GetHeroSelection
    \/ GetGameHeroComposition
    \/ GetGameHeroInfo

InitEncode == EncodeInit /\ WealthIdle /\ FightsIdle /\ CarryIdle /\ ScrapeIdle

SpecEncode == InitEncode /\ [][EncodeNext]_vars

\* The rows of the match on side A (player_slot < 50) and on side B.
SideARows == SelectSeq(players_df, LAMBDA r : r.player_slot < 50)

SideBRows == SelectSeq(players_df, LAMBDA r : ~(r.player_slot < 50))

DistinctPicks(rows) ==
    /\ Len(rows) = 5
    /\ \A i, j \in DOMAIN rows : i # j => rows[i].hero_id # rows[j].hero_id

OnesOf(row) == {p \in DOMAIN row : row[p] = 1}

\* C5: with five distinct picks on each side, the selection row has exactly
\* ten entries equal to 1, at hero_id - 1 for the side-A picks and at
\* hero_id - 1 + NumHeros for the side-B picks, and 0 everywhere else.
C5_SelectionVectorExact ==
    (hero_selection_row # <<>> /\ DistinctPicks(SideARows) /\ DistinctPicks(SideBRows)) =>
        LET row == hero_selection_row[1] IN
        /\ DOMAIN row = 0..(2 * NumHeros - 1)
        /\ \A p \in DOMAIN row : row[p] \in {0, 1}
        /\ Cardinality(OnesOf(row)) = 10
        /\ OnesOf(row) = {SideARows[i].hero_id - 1 : i \in DOMAIN SideARows}
                           \cup {SideBRows[i].hero_id - 1 + NumHeros : i \in DOMAIN SideBRows}

\* A selection row has been computed for a match whose picks are distinct on
\* both sides and in which both sides picked hero 1.
C5_Witness ==
    /\ hero_selection_row # <<>>
    /\ DistinctPicks(SideARows) /\ DistinctPicks(SideBRows)
    /\ \E i \in DOMAIN SideARows : SideARows[i].hero_id = 1
    /\ \E i \in DOMAIN SideBRows : SideBRows[i].hero_id = 1
    /\ hero_selection_row[1][0] = 1 /\ hero_selection_row[1][NumHeros] = 1

\* The major role of an attribute row: the first role, in column order, that
\* holds the row's largest value.
IsMajorRole(row, role) ==
    \E c \in 1..Len(TotalRoles) :
        /\ TotalRoles[c] = role
        /\ \A d \in 1..Len(TotalRoles) : row[TotalRoles[d]] <= row[role]
        /\ \A d \in 1..(c - 1) : row[TotalRoles[d]] < row[role]

\* The sum over a side's rows of the attribute value of role r at row hero_id - 1.
SideRoleCount(rows, r) ==
    SeqSum([i \in 1..Len(rows) |-> hero_attribute_df[rows[i].hero_id - 1][r]])

\* C7: every lookup into the role-attribute table uses row hero_id - 1: the
\* composition vector is, per side, the sum of the attribute rows at hero_id - 1,
\* and a player's role is the major role of the attribute row at hero_id - 1.
C7_LookupsUseHeroIdMinusOne ==
    /\ hero_composition # <<>> =>
          /\ hero_composition[1].err = ""
          /\ hero_composition[1].values =
                [c \in 1..(2 * Len(TotalRoles)) |->
                    IF c <= Len(TotalRoles)
                    THEN SideRoleCount(SideARows, TotalRoles[c])
                    ELSE SideRoleCount(SideBRows, TotalRoles[c - Len(TotalRoles)])]
    /\ game_hero_info_df # <<>> =>
          /\ game_hero_info_df[1].err = ""
          /\ \A i \in DOMAIN players_df :
                IsMajorRole(hero_attribute_df[players_df[i].hero_id - 1],
                            game_hero_info_df[1].rows[i].role)

(***************************************************************************)
(* The event-window aggregator: construct_num_team_fights and              *)
(* construct_net_death_count_from_teamfights over a batch of matches.      *)
(***************************************************************************)
\* The matches of the batch are 0..NumMatches-1: the canonical match index,
\* range(50000) in the code.
NumMatches == 2

MatchIndex == 0..(NumMatches - 1)

\* threshold=600: the default time threshold, in seconds.
Threshold == 600

\* A match has at most this many team fights.
MaxFights == 2

\* The end times the model draws a fight's end from.
FightEnds == {Threshold - 60, Threshold, Threshold + 60}

\* The fights of one match in chronological order, as their end times.
FightEndSeqs ==
    {s \in UNION {[1..n -> FightEnds] : n \in 0..MaxFights} :
        \A i, j \in DOMAIN s : i < j => s[i] <= s[j]}

\* The participant row of each fight that has one death: the first row (slot 0,
\* Radiant) or the tenth row (slot 132, Dire).
Victims == {1, 10}

\* The team fights of one match: the fights' end times and the row that dies.
MatchFightConfigs ==
    {[ends |-> <<>>, victim |-> 1]}
      \cup {[ends |-> s, victim |-> v] : s \in FightEndSeqs \ {<<>>}, v \in Victims}

RECURSIVE Flatten(_)
\* The concatenation of a sequence of sequences.
Flatten(ss) == IF ss = <<>> THEN <<>> ELSE Head(ss) \o Flatten(Tail(ss))

\* The tables of the batch, one block of rows per match, in match order.
PerMatch(block(_)) == Flatten([k \in 1..NumMatches |-> block(k - 1)])

\* The team-fight summary rows of match m.
FightRows(m, cfg) ==
    [f \in 1..Len(cfg.ends) |-> [match_id |-> m, start |-> cfg.ends[f] - 30, end |-> cfg.ends[f]]]

\* The participant rows of match m: ten rows per fight, in fight order.
ParticipantRows(m, cfg) ==
    [i \in 1..(10 * Len(cfg.ends)) |->
        [match_id |-> m,
         player_slot |-> PlayerSlots[((i - 1) % 10) + 1],
         deaths |-> IF ((i - 1) % 10) + 1 = cfg.victim THEN 1 ELSE 0]]

\* The rows of a table that belong to match m, in table order.
RowsOfMatch(df, m) == SelectSeq(df, LAMBDA r : r.match_id = m)

\* The match ids a table has rows for: the groups of groupby('match_id').
MatchesIn(df) == {df[i].match_id : i \in DOMAIN df}

EndsAtOrBeforeThreshold(row, threshold) == row.end <= threshold

\* team_fights_df.end < threshold
EndsBeforeThreshold(row, threshold) == row.end < threshold

\* team_fights_df[team_fights_df.end < threshold].groupby('match_id')['start'].count(),
\* joined onto range(50000), the missing matches filled with 0.
construct_num_team_fights(fights_df, threshold) ==
    LET kept == SelectSeq(fights_df, LAMBDA r : EndsBeforeThreshold(r, threshold))
        count == [m \in MatchesIn(kept) |-> Len(RowsOfMatch(kept, m))]
    IN  [m \in MatchIndex |-> IF m \in DOMAIN count THEN count[m] ELSE 0]

\* seq[:stop] as Python slices: a negative stop counts from the end.
SliceTo(seq, stop) ==
    IF stop < 0
    THEN SubSeq(seq, 1, IF Len(seq) + stop > 0 THEN Len(seq) + stop ELSE 0)
    ELSE SubSeq(seq, 1, IF stop < Len(seq) THEN stop ELSE Len(seq))

DeathsOf(row) == row.deaths

\* The net death counts [radiant, dire] of one match's participant rows.
get_net_death_count(single_game_teamfight_info, num_df) ==
    LET match_id == single_game_teamfight_info[1].match_id
        num_teamfights == num_df[match_id]
        teamfights_before_ten_min ==
            SliceTo(single_game_teamfight_info, num_teamfights * 10 - 1)
        radiant == SelectSeq(teamfights_before_ten_min, LAMBDA r : r.player_slot < 50)
        dire == SelectSeq(teamfights_before_ten_min, LAMBDA r : r.player_slot > 50)
    IN  IF Len(teamfights_before_ten_min) = 0
        THEN <<0, 0>>
        ELSE <<SeqSum(Map(DeathsOf, radiant)), SeqSum(Map(DeathsOf, dire))>>

\* groupby('match_id').apply(get_net_death_count), reindexed to range(50000)
\* with fill_value=[0, 0].
construct_net_death_count_from_teamfights(participants_df, num_df) ==
    LET raw == [m \in MatchesIn(participants_df) |->
                   get_net_death_count(RowsOfMatch(participants_df, m), num_df)]
    IN  [m \in MatchIndex |-> IF m \in DOMAIN raw THEN raw[m] ELSE <<0, 0>>]

FightsInit ==
    /\ \E cfg \in [MatchIndex -> MatchFightConfigs] :
          /\ team_fights_df = PerMatch(LAMBDA m : FightRows(m, cfg[m]))
          /\ teamfight_players_df = PerMatch(LAMBDA m : ParticipantRows(m, cfg[m]))
    /\ num_team_fights_df = <<>>
    /\ net_death_count_df = <<>>

ConstructNumTeamFights ==
    /\ FightsFrame
    /\ num_team_fights_df' = <<construct_num_team_fights(team_fights_df, Threshold)>>
    /\ UNCHANGED <<team_fights_df, teamfight_players_df, net_death_count_df>>

ConstructNetDeathCount ==
    /\ FightsFrame
    /\ num_team_fights_df # <<>>
    /\ net_death_count_df' =
          <<construct_net_death_count_from_teamfights(teamfight_players_df,
                                                      num_team_fights_df[1])>>
    /\ UNCHANGED <<team_fights_df, teamfight_players_df, num_team_fights_df>>

FightsNext ==
    \/ ConstructNumTeamFights
    \/ ConstructNetDeathCount

InitFights == FightsInit /\ EncodeIdle /\ WealthIdle /\ CarryIdle /\ ScrapeIdle

SpecFights == InitFights /\ [][FightsNext]_vars

\* The number of team-fight rows of match m that satisfy ends(_).
NumFightsWhere(m, ends(_)) ==
    Cardinality({i \in DOMAIN team_fights_df :
                    team_fights_df[i].match_id = m /\ ends(team_fights_df[i].end)})

\* C3 as stated: the count of a match is the number of its team-fight rows with
\* end <= threshold, so a fight ending exactly at the threshold is counted.
C3_CountsEndAtOrBeforeThreshold ==
    num_team_fights_df # <<>> =>
        \A m \in MatchIndex :
            num_team_fights_df[1][m] = NumFightsWhere(m, LAMBDA e : e <= Threshold)

\* C3, amended: the count of a match is the number of its team-fight rows with
\* end < threshold, a fight ending exactly at the threshold is not counted, the
\* matches with no such rows get 0, and the table has one row per match.
C3_CountsEndBeforeThreshold ==
    num_team_fights_df # <<>> =>
        /\ DOMAIN num_team_fights_df[1] = MatchIndex
        /\ \A m \in MatchIndex :
              num_team_fights_df[1][m] = NumFightsWhere(m, LAMBDA e : e < Threshold)

\* The counts are computed for a batch in which one match has a fight ending
\* before the threshold and a fight ending exactly at it, and is counted 1,
\* and another match has no fight before the threshold and is counted 0.
C3_Witness ==
    /\ num_team_fights_df # <<>>
    /\ \E m \in MatchIndex :
          /\ NumFightsWhere(m, LAMBDA e : e = Threshold) = 1
          /\ NumFightsWhere(m, LAMBDA e : e < Threshold) = 1
          /\ num_team_fights_df[1][m] = 1
    /\ \E m \in MatchIndex :
          /\ NumFightsWhere(m, LAMBDA e : e < Threshold) = 0
          /\ num_team_fights_df[1][m] = 0

\* C2: every match with no qualifying team fight (count 0) has the net death
\* count row [0, 0], whether it has no participant rows at all or participant
\* rows that all belong to fights outside the threshold.
C2_NoQualifyingFightGivesZeros ==
    net_death_count_df # <<>> =>
        \A m \in MatchIndex :
            num_team_fights_df[1][m] = 0 => net_death_count_df[1][m] = <<0, 0>>

(***************************************************************************)
(* The time-windowed wealth aggregator: construct_x_seconds_df,            *)
(* construct_x_seconds_max_wealth and                                      *)
(* construct_x_seconds_gold_growth_benchmark.  The pipeline runs on two    *)
(* datasets side by side (run 1 and run 2) that have the same samples,     *)
(* agree on the rows of at least one match and may differ in the gold of   *)
(* the others, so that the rows a match's output depends on can be told    *)
(* from the outputs.                                                       *)
(***************************************************************************)
\* The players whose columns the wealth table holds (ten in the data).
WealthPlayers == 2

\* A match has at most this many samples.
MaxSamples == 2

\* The sample times of the model: one a minute, around the threshold.
SampleTimes == <<Threshold - 60, Threshold, Threshold + 60>>

\* The sample times of one match: consecutive samples of the time grid.
SampleWindows ==
    {SubSeq(SampleTimes, p[1], p[1] + p[2] - 1) :
        p \in {q \in (1..Len(SampleTimes)) \X (0..MaxSamples) :
                  q[1] + q[2] - 1 <= Len(SampleTimes)}}

\* The gold a sample of the model shows for a player.
SampleGold == {100, 300}

\* The samples of one match: the sample times and each player's gold at each.
MatchWealthConfigs ==
    UNION {{[times |-> w, gold |-> g] : g \in [1..Len(w) -> [1..WealthPlayers -> SampleGold]]} :
              w \in SampleWindows}

\* The columns of a row after match_id and times: gold_t_k, lh_t_k, xp_t_k per
\* player k.  The model's samples show 5 last hits and 50 experience.
WealthColumns(gold) ==
    [c \in 1..(3 * WealthPlayers) |->
        IF c % 3 = 1 THEN gold[((c - 1) \div 3) + 1] ELSE IF c % 3 = 2 THEN 5 ELSE 50]

\* The wealth rows of match m, in time order.
WealthRows(m, cfg) ==
    [i \in 1..Len(cfg.times) |->
        [match_id |-> m, times |-> cfg.times[i], vals |-> WealthColumns(cfg.gold[i])]]

\* The datasets of the model: the rows of every match, in match order; some
\* match has a sample.
WealthDatasets ==
    {PerMatch(LAMBDA m : WealthRows(m, cfg[m])) : cfg \in [MatchIndex -> MatchWealthConfigs]}
        \ {<<>>}

\* groupby('match_id').apply(lambda game: game[game.times <= threshold]) and
\* reset_index: the kept rows, group after group in match order.
construct_x_seconds_df(time_df, threshold) ==
    LET ids == Ascending(MatchesIn(time_df))
    IN  Flatten([k \in 1..Len(ids) |->
                    SelectSeq(RowsOfMatch(time_df, ids[k]), LAMBDA r : r.times <= threshold)])

\* groupby('match_id').max().iloc[:, 1:]: per match that has rows, the largest
\* value of every column after times.
construct_x_seconds_max_wealth(x_df) ==
    [m \in MatchesIn(x_df) |->
        LET game == RowsOfMatch(x_df, m)
        IN  [c \in 1..(3 * WealthPlayers) |-> Max({game[i].vals[c] : i \in DOMAIN game})]]

\* x_seconds_df.iloc[:, 2::3]: every third column from the third, the gold columns.
GoldColumns(row) == [k \in 1..WealthPlayers |-> row.vals[3 * (k - 1) + 1]]

\* .diff(): row i minus row i - 1 of the whole table; the first row has no value
\* (NaN) and is not among the rows returned here.  match_id is joined on.
GoldDiff(x_df) ==
    [i \in 2..Len(x_df) |->
        [match_id |-> x_df[i].match_id,
         growth |-> [k \in 1..WealthPlayers |-> GoldColumns(x_df[i])[k] - GoldColumns(x_df[i - 1])[k]]]]

\* gold_growth_df.iloc[:, 0] >= 0: the row filter (NaN >= 0 is False).
KeepsRow(growth) == growth[1] >= 0

\* gold_growth_df after the filter and the subtraction of 100 (match_id gets its
\* 100 back): the values that enter the mean and the standard deviation.
GoldGrowthDf(x_df) ==
    LET diffs == GoldDiff(x_df)
        kept == SelectSeq([i \in 1..(Len(x_df) - 1) |-> diffs[i + 1]],
                          LAMBDA r : KeepsRow(r.growth))
    IN  [i \in 1..Len(kept) |->
            [match_id |-> kept[i].match_id,
             growth |-> [k \in 1..WealthPlayers |-> kept[i].growth[k] - 100]]]

RECURSIVE GCD(_, _)
GCD(a, b) == IF b = 0 THEN a ELSE GCD(b, a % b)

Abs(x) == IF x < 0 THEN -x ELSE x

\* The number num / den (den > 0) in lowest terms, or NaN.
Number(num, den) ==
    LET g == GCD(Abs(num), den) IN [nan |-> FALSE, num |-> num \div g, den |-> den \div g]

NaN == [nan |-> TRUE, num |-> 0, den |-> 1]

\* .mean() of a column's values.
Mean(values) == IF Len(values) = 0 THEN NaN ELSE Number(SeqSum(values), Len(values))

Square(x) == x * x

\* .std() of a column's values, given as its square, the sample variance
\* (n * sum(x^2) - sum(x)^2) / (n * (n - 1)); NaN for fewer than two values.
StdSquared(values) ==
    LET n == Len(values) IN
    IF n < 2 THEN NaN
    ELSE Number(n * SeqSum(Map(Square, values)) - Square(SeqSum(values)), n * (n - 1))

\* groupby('match_id').mean() joined with groupby('match_id').std(): per match
\* that has rows in gold_growth_df, the mean and the std of every gold column.
construct_x_seconds_gold_growth_benchmark(x_df) ==
    LET gold_growth_df == GoldGrowthDf(x_df)
    IN  [m \in MatchesIn(gold_growth_df) |->
            LET game == RowsOfMatch(gold_growth_df, m)
                column(k) == [i \in 1..Len(game) |-> game[i].growth[k]]
            IN  [mean |-> [k \in 1..WealthPlayers |-> Mean(column(k))],
                 std |-> [k \in 1..WealthPlayers |-> StdSquared(column(k))]]]

\* Both datasets have the same rows for some match.
AgreeOnAMatch(d1, d2) == \E m \in MatchIndex : RowsOfMatch(d1, m) = RowsOfMatch(d2, m)

\* Both datasets have the same samples: row by row the same match and time.
SameSamples(d1, d2) ==
    /\ Len(d1) = Len(d2)
    /\ \A i \in DOMAIN d1 : d1[i].match_id = d2[i].match_id /\ d1[i].times = d2[i].times

WealthInit ==
    /\ \E d1 \in WealthDatasets, d2 \in WealthDatasets :
          /\ SameSamples(d1, d2)
          /\ AgreeOnAMatch(d1, d2)
          /\ players_time_df = <<d1, d2>>
    /\ x_seconds_df = <<>>
    /\ x_seconds_max_wealth = <<>>
    /\ gold_growth_benchmark = <<>>

ConstructXSeconds ==
    /\ WealthFrame
    /\ x_seconds_df' = [run \in 1..2 |-> construct_x_seconds_df(players_time_df[run], Threshold)]
    /\ UNCHANGED <<players_time_df, x_seconds_max_wealth, gold_growth_benchmark>>

ConstructXSecondsMaxWealth ==
    /\ WealthFrame
    /\ x_seconds_df # <<>>
    /\ x_seconds_max_wealth' = [run \in 1..2 |-> construct_x_seconds_max_wealth(x_seconds_df[run])]
    /\ UNCHANGED <<players_time_df, x_seconds_df, gold_growth_benchmark>>

ConstructXSecondsGoldGrowthBenchmark ==
    /\ WealthFrame
    /\ x_seconds_df # <<>>
    /\ gold_growth_benchmark' =
          [run \in 1..2 |-> construct_x_seconds_gold_growth_benchmark(x_seconds_df[run])]
    /\ UNCHANGED <<players_time_df, x_seconds_df, x_seconds_max_wealth>>

WealthNext ==
    \/ ConstructXSeconds
    \/ ConstructXSecondsMaxWealth
    \/ ConstructXSecondsGoldGrowthBenchmark

InitWealth == WealthInit /\ EncodeIdle /\ FightsIdle /\ CarryIdle /\ ScrapeIdle

SpecWealth == InitWealth /\ [][WealthNext]_vars

\* C1: the row indices of every aggregator's output are exactly 0..N-1, also
\* when a match has no rows in the source table or none that survive the
\* filter.  Stated for the max-wealth snapshot and the gold-growth statistics.
C1_OutputIndexedByAllMatches ==
    /\ x_seconds_max_wealth # <<>> =>
          \A run \in 1..2 : DOMAIN x_seconds_max_wealth[run] = MatchIndex
    /\ gold_growth_benchmark # <<>> =>
          \A run \in 1..2 : DOMAIN gold_growth_benchmark[run] = MatchIndex

\* The raw gold differences of the consecutive sample pairs of the windowed
\* table whose values enter the statistics of match m, for gold column k.
ContributingDifferences(x_df, m, k) ==
    {GoldGrowthDf(x_df)[i].growth[k] + 100 :
        i \in {j \in DOMAIN GoldGrowthDf(x_df) : GoldGrowthDf(x_df)[j].match_id = m}}

\* C4: for every gold column of every player, a consecutive sample pair whose
\* raw gold difference is negative contributes no value to that column's
\* per-match mean or standard deviation.
C4_NegativeDifferencesExcluded ==
    gold_growth_benchmark # <<>> =>
        \A run \in 1..2 : \A m \in DOMAIN gold_growth_benchmark[run] :
            \A k \in 1..WealthPlayers :
                \A d \in ContributingDifferences(x_seconds_df[run], m, k) : d >= 0

\* The output row of match m, or no row.
OutputRow(table, m) == IF m \in DOMAIN table THEN <<table[m]>> ELSE <<>>

\* C8: every per-match output row depends only on that match's own input rows:
\* two datasets that agree on the rows of match m give match m the same
\* max-wealth row and the same gold-growth mean and std.
C8_OutputDependsOnOwnRowsOnly ==
    \A m \in MatchIndex :
        RowsOfMatch(players_time_df[1], m) = RowsOfMatch(players_time_df[2], m) =>
            /\ x_seconds_max_wealth # <<>> =>
                  OutputRow(x_seconds_max_wealth[1], m) = OutputRow(x_seconds_max_wealth[2], m)
            /\ gold_growth_benchmark # <<>> =>
                  OutputRow(gold_growth_benchmark[1], m) = OutputRow(gold_growth_benchmark[2], m)

(***************************************************************************)
(* The cross-entity comparison engine: construct_role_gold_interaction_df, *)
(* construct_carry_comparison_df and construct_max_gold_comparison over a  *)
(* batch of matches.                                                       *)
(***************************************************************************)
\* The players of one side in the model (five in the data).
SidePlayers == 2

\* The slots of the model's players in row order: Radiant from 0, Dire from 128.
CarrySlots == [i \in 1..(2 * SidePlayers) |-> IF i <= SidePlayers THEN i - 1 ELSE 128 + i - SidePlayers - 1]

\* The major roles and the max_gold values the model draws a player's from.
PlayerRoles == {"Carry", "Support"}

GoldValues == {100, 300}

\* One player of a match: the major role of the hero and the max gold.
PlayerKinds == [role : PlayerRoles, max_gold : GoldValues]

\* The players of one match, in slot order.
MatchKinds == [1..(2 * SidePlayers) -> PlayerKinds]

\* Every player of a side alike.
UniformMatch(radiant, dire) == [i \in 1..(2 * SidePlayers) |-> IF i <= SidePlayers THEN radiant ELSE dire]

\* The matches the batch holds after its first: no Carry at all, equal carries,
\* and a richer Radiant carry.
ReferenceMatches ==
    {UniformMatch([role |-> "Support", max_gold |-> 100], [role |-> "Support", max_gold |-> 300]),
     UniformMatch([role |-> "Carry", max_gold |-> 300], [role |-> "Carry", max_gold |-> 300]),
     UniformMatch([role |-> "Carry", max_gold |-> 300], [role |-> "Carry", max_gold |-> 100])}

\* The batches: the first match is any match, the others are reference matches.
CarryBatches ==
    {[m \in MatchIndex |-> IF m = 0 THEN first ELSE rest[m]] :
        first \in MatchKinds, rest \in [MatchIndex \ {0} -> ReferenceMatches]}

\* The rows get_game_hero_info gives for match m.
HeroInfoRows(m, kinds) ==
    [i \in 1..(2 * SidePlayers) |->
        [match_id |-> m, hero_id |-> i, player_slot |-> CarrySlots[i],
         radiant_player |-> CarrySlots[i] < 50, role |-> kinds[i].role]]

\* The rows construct_long_player_gold_df gives for match m.
LongGoldRows(m, kinds) ==
    [i \in 1..(2 * SidePlayers) |->
        [match_id |-> m, player_slot |-> CarrySlots[i], max_gold |-> kinds[i].max_gold]]

\* A quotient num / den with den > 0.
Quotient(num, den) == [num |-> num, den |-> den]

QuotientGE(a, b) == a.num * b.den >= b.num * a.den

\* a > b
QuotientGT(a, b) == a.num * b.den > b.num * a.den

\* The maximum of a non-empty set of quotients.
MaxQuotient(S) == CHOOSE x \in S : \A y \in S : ~(y.num * x.den > x.num * y.den)

MaxGoldOf(row) == row.max_gold

\* game_hero_info_df.merge(long_player_gold_df, on=['match_id', 'player_slot'])
MergeOnMatchAndSlot(info_df, gold_df) ==
    Flatten([i \in 1..Len(info_df) |->
        LET matching == SelectSeq(gold_df, LAMBDA g : g.match_id = info_df[i].match_id
                                                      /\ g.player_slot = info_df[i].player_slot)
        IN  [j \in 1..Len(matching) |->
                [match_id |-> info_df[i].match_id,
                 hero_id |-> info_df[i].hero_id,
                 player_slot |-> info_df[i].player_slot,
                 radiant_player |-> info_df[i].radiant_player,
                 role |-> info_df[i].role,
                 max_gold |-> matching[j].max_gold]]])

\* hero_gold - hero_gold.mean() within the rows of one match: the quotient
\* (n * max_gold - sum) / n over the n rows of the match.
DiffFromMatchMean(hero_gold_info, row) ==
    LET game == RowsOfMatch(hero_gold_info, row.match_id)
    IN  Quotient(Len(game) * row.max_gold - SeqSum(Map(MaxGoldOf, game)), Len(game))

\* The merged table with the column max_gold_diff_from_match_mean joined on.
construct_role_gold_interaction_df(info_df, gold_df) ==
    LET hero_gold_info == MergeOnMatchAndSlot(info_df, gold_df)
    IN  [i \in 1..Len(hero_gold_info) |->
            [match_id |-> hero_gold_info[i].match_id,
             hero_id |-> hero_gold_info[i].hero_id,
             player_slot |-> hero_gold_info[i].player_slot,
             radiant_player |-> hero_gold_info[i].radiant_player,
             role |-> hero_gold_info[i].role,
             max_gold |-> hero_gold_info[i].max_gold,
             max_gold_diff_from_match_mean |->
                 DiffFromMatchMean(hero_gold_info, hero_gold_info[i])]]

DiffOf(row) == row.max_gold_diff_from_match_mean

\* -1 if either team has no carry, 1 if the Radiant carries' largest deviation
\* is greater than the Dire carries', otherwise 0.
get_carry_comparison(single_game_role_status) ==
    LET carries_of_the_match == SelectSeq(single_game_role_status, LAMBDA r : r.role = "Carry")
        sides == {carries_of_the_match[i].radiant_player : i \in DOMAIN carries_of_the_match}
        radiant_carries == SelectSeq(carries_of_the_match, IsRadiant)
        dire_carries == SelectSeq(carries_of_the_match, IsDire)
    IN  IF Cardinality(sides) < 2
        THEN -1
        ELSE IF QuotientGT(MaxQuotient(Range(Map(DiffOf, radiant_carries))),
                           MaxQuotient(Range(Map(DiffOf, dire_carries))))
             THEN 1
             ELSE 0

\* pd.get_dummies(...).rename(columns={-1: 'Unknown', 0: 'Dire_lead', 1: 'Radiant_lead'}):
\* one indicator column per outcome that occurs in the batch.
DummyColumns(status) == {status[m] : m \in DOMAIN status}

\* groupby('match_id').apply(get_carry_comparison), the dummies of the outcomes,
\* and dummies[['Radiant_lead', 'Dire_lead']]: KeyError when the batch has no
\* match with outcome 1 or none with outcome 0, since that column does not exist.
construct_carry_comparison_df(role_gold_df) ==
    LET carry_status_comparison ==
            [m \in MatchesIn(role_gold_df) |-> get_carry_comparison(RowsOfMatch(role_gold_df, m))]
    IN  IF {0, 1} \subseteq DummyColumns(carry_status_comparison)
        THEN [err |-> "",
              status |-> carry_status_comparison,
              rows |-> [m \in DOMAIN carry_status_comparison |->
                          [Radiant_lead |-> IF carry_status_comparison[m] = 1 THEN 1 ELSE 0,
                           Dire_lead |-> IF carry_status_comparison[m] = 0 THEN 1 ELSE 0]]]
        ELSE [err |-> "KeyError", status |-> carry_status_comparison, rows |-> <<>>]

\* 1 if the largest max_gold of the Radiant players is greater than the Dire
\* players', otherwise 0; IndexError when one side has no rows.
get_max_gold_comparison(single_game_role_status) ==
    LET radiant == SelectSeq(single_game_role_status, IsRadiant)
        dire == SelectSeq(single_game_role_status, IsDire)
    IN  IF Len(radiant) = 0 \/ Len(dire) = 0
        THEN [err |-> "IndexError", value |-> 0]
        ELSE [err |-> "",
              value |-> IF Max(Range(Map(MaxGoldOf, radiant))) > Max(Range(Map(MaxGoldOf, dire)))
                        THEN 1 ELSE 0]

\* groupby('match_id').apply(get_max_gold_comparison)
construct_max_gold_comparison(role_gold_df) ==
    [m \in MatchesIn(role_gold_df) |-> get_max_gold_comparison(RowsOfMatch(role_gold_df, m))]

CarryInit ==
    /\ \E b \in CarryBatches :
          /\ game_hero_info_df = <<[err |-> "", rows |-> PerMatch(LAMBDA m : HeroInfoRows(m, b[m]))]>>
          /\ long_player_gold_df = PerMatch(LAMBDA m : LongGoldRows(m, b[m]))
    /\ players_df = <<>>
    /\ hero_attribute_df = <<>>
    /\ hero_selection_row = <<>>
    /\ hero_composition = <<>>
    /\ role_gold_interaction_df = <<>>
    /\ carry_comparison_df = <<>>
    /\ max_gold_comparison_df = <<>>

ConstructRoleGoldInteraction ==
    /\ CarryFrame
    /\ role_gold_interaction_df' =
          <<construct_role_gold_interaction_df(game_hero_info_df[1].rows, long_player_gold_df)>>
    /\ UNCHANGED <<game_hero_info_df, long_player_gold_df, carry_comparison_df,
                   max_gold_comparison_df>>

ConstructCarryComparison ==
    /\ CarryFrame
    /\ role_gold_interaction_df # <<>>
    /\ carry_comparison_df' = <<construct_carry_comparison_df(role_gold_interaction_df[1])>>
    /\ UNCHANGED <<game_hero_info_df, long_player_gold_df, role_gold_interaction_df,
                   max_gold_comparison_df>>

ConstructMaxGoldComparison ==
    /\ CarryFrame
    /\ role_gold_interaction_df # <<>>
    /\ max_gold_comparison_df' = <<construct_max_gold_comparison(role_gold_interaction_df[1])>>
    /\ UNCHANGED <<game_hero_info_df, long_player_gold_df, role_gold_interaction_df,
                   carry_comparison_df>>

CarryNext ==
    \/ ConstructRoleGoldInteraction
    \/ ConstructCarryComparison
    \/ ConstructMaxGoldComparison

InitCarry == CarryInit /\ WealthIdle /\ FightsIdle /\ ScrapeIdle

SpecCarry == InitCarry /\ [][CarryNext]_vars

\* The Carry rows of match m on the Radiant side (radiant = TRUE) or the Dire side.
CarryRows(m, radiant) ==
    SelectSeq(role_gold_interaction_df[1],
              LAMBDA r : r.match_id = m /\ r.role = "Carry" /\ (r.player_slot < 50) = radiant)

\* Row a's deviation from the match mean is strictly greater than row b's.
DeviatesMore(a, b) ==
    a.max_gold_diff_from_match_mean.num * b.max_gold_diff_from_match_mean.den
        > b.max_gold_diff_from_match_mean.num * a.max_gold_diff_from_match_mean.den

\* The largest deviation among side A's carries is strictly greater than the
\* largest among side B's.
SideAMaxGreater(m) ==
    \E i \in DOMAIN CarryRows(m, TRUE) :
        \A j \in DOMAIN CarryRows(m, FALSE) :
            DeviatesMore(CarryRows(m, TRUE)[i], CarryRows(m, FALSE)[j])

SideAMaxEqual(m) ==
    /\ ~SideAMaxGreater(m)
    /\ \E j \in DOMAIN CarryRows(m, FALSE) :
          \A i \in DOMAIN CarryRows(m, TRUE) :
              ~DeviatesMore(CarryRows(m, FALSE)[j], CarryRows(m, TRUE)[i])

\* C6: a match in which a side has no Carry yields -1 and the exported row
\* Radiant_lead = 0, Dire_lead = 0; no row has both columns 1; and producing
\* the two columns never fails, whatever mix of outcomes the batch contains.
C6_SentinelExported ==
    carry_comparison_df # <<>> =>
        /\ carry_comparison_df[1].err = ""
        /\ \A m \in MatchIndex :
              (Len(CarryRows(m, TRUE)) = 0 \/ Len(CarryRows(m, FALSE)) = 0) =>
                  /\ carry_comparison_df[1].status[m] = -1
                  /\ carry_comparison_df[1].rows[m] = [Radiant_lead |-> 0, Dire_lead |-> 0]
        /\ \A m \in MatchIndex :
              ~(carry_comparison_df[1].rows[m].Radiant_lead = 1
                  /\ carry_comparison_df[1].rows[m].Dire_lead = 1)

\* C9: in a match where both sides have a Carry, get_carry_comparison returns 1
\* if and only if the largest deviation among side A's carries is strictly
\* greater than the largest among side B's, and 0 otherwise; a row that is
\* exported has Radiant_lead = 1 exactly for outcome 1 and Dire_lead = 1
\* exactly for outcome 0, so equal maxima give Dire_lead = 1, Radiant_lead = 0.
C9_StrictlyGreaterOrDire ==
    carry_comparison_df # <<>> =>
        \A m \in MatchIndex :
            (Len(CarryRows(m, TRUE)) > 0 /\ Len(CarryRows(m, FALSE)) > 0) =>
                /\ carry_comparison_df[1].status[m] = (IF SideAMaxGreater(m) THEN 1 ELSE 0)
                /\ carry_comparison_df[1].err = "" =>
                      carry_comparison_df[1].rows[m] =
                          [Radiant_lead |-> IF SideAMaxGreater(m) THEN 1 ELSE 0,
                           Dire_lead |-> IF SideAMaxGreater(m) THEN 0 ELSE 1]

\* The comparison has been exported for a batch whose first match has two
\* carries on side A, equal largest deviations on both sides, and the row
\* Dire_lead = 1, Radiant_lead = 0.
C9_Witness ==
    /\ carry_comparison_df # <<>>
    /\ carry_comparison_df[1].err = ""
    /\ Len(CarryRows(0, TRUE)) = 2 /\ Len(CarryRows(0, FALSE)) > 0
    /\ SideAMaxEqual(0)
    /\ carry_comparison_df[1].status[0] = 0
    /\ carry_comparison_df[1].rows[0] = [Radiant_lead |-> 0, Dire_lead |-> 1]

(***************************************************************************)
(* construct_hero_roles: the scraping loop.                                *)
(***************************************************************************)
\* The number of heroes the while loop waits for.
ExpectedHeroes == 113

\* The index page returns ExpectedHeroes links, or up to LinkSlack fewer or more.
LinkSlack == 1

\* A page fails to parse at most this many times before it parses.
MaxParseFailures == 1

\* The links whose pages may fail to parse: the first two and the last two.
FlakyLinks(L) == {1, 2, L - 1, L}

\* The roles get_hero_roles reads from a page that parses.
PageRoles(link) == IF link % 2 = 0 THEN <<"Carry", "Escape">> ELSE <<"Support", "Disabler">>

AlwaysScrape(link) == FALSE

\* if link not in hero_roles.keys()
AlreadyScraped(link) == link \in DOMAIN hero_roles

ScrapeInit ==
    /\ \E L \in (ExpectedHeroes - LinkSlack)..(ExpectedHeroes + LinkSlack) :
          /\ hero_links = [i \in 1..L |-> i]
          /\ \E f \in [FlakyLinks(L) -> 0..MaxParseFailures] :
                unparsable = [l \in 1..L |-> IF l \in FlakyLinks(L) THEN f[l] ELSE 0]
          /\ fetch_count = [l \in 1..L |-> 0]
    /\ hero_roles = <<>>
    /\ pc = "while"
    /\ cursor = 0

\* while len(hero_roles) != 113: another pass over hero_links
EnterPass ==
    /\ ScrapeFrame
    /\ pc = "while"
    /\ Cardinality(DOMAIN hero_roles) # ExpectedHeroes
    /\ pc' = "for"
    /\ cursor' = 1
    /\ UNCHANGED <<hero_links, hero_roles, unparsable, fetch_count>>

\* while len(hero_roles) != 113: the condition is false, the loop is left
ExitLoop ==
    /\ ScrapeFrame
    /\ pc = "while"
    /\ Cardinality(DOMAIN hero_roles) = ExpectedHeroes
    /\ pc' = "done"
    /\ UNCHANGED <<hero_links, hero_roles, cursor, unparsable, fetch_count>>

\* the link is new and get_hero_roles(link) returns the page's roles
FetchParsed ==
    /\ ScrapeFrame
    /\ pc = "for"
    /\ cursor <= Len(hero_links)
    /\ LET link == hero_links[cursor] IN
          /\ ~AlreadyScraped(link)
          /\ fetch_count[link] >= unparsable[link]
          /\ fetch_count' = [fetch_count EXCEPT ![link] = @ + 1]
          /\ hero_roles' = [l \in DOMAIN hero_roles \cup {link} |->
                               IF l = link THEN PageRoles(link) ELSE hero_roles[l]]
    /\ cursor' = cursor + 1
    /\ UNCHANGED <<hero_links, pc, unparsable>>

\* the link is new and get_hero_roles(link) raises AttributeError: continue
FetchUnparsed ==
    /\ ScrapeFrame
    /\ pc = "for"
    /\ cursor <= Len(hero_links)
    /\ LET link == hero_links[cursor] IN
          /\ ~AlreadyScraped(link)
          /\ fetch_count[link] < unparsable[link]
          /\ fetch_count' = [fetch_count EXCEPT ![link] = @ + 1]
    /\ cursor' = cursor + 1
    /\ UNCHANGED <<hero_links, hero_roles, pc, unparsable>>

\* the link is in hero_roles already: only the sleep
SkipScraped ==
    /\ ScrapeFrame
    /\ pc = "for"
    /\ cursor <= Len(hero_links)
    /\ AlreadyScraped(hero_links[cursor])
    /\ cursor' = cursor + 1
    /\ UNCHANGED <<hero_links, hero_roles, pc, unparsable, fetch_count>>

\* the for loop is exhausted: back to the while condition
EndPass ==
    /\ ScrapeFrame
    /\ pc = "for"
    /\ cursor > Len(hero_links)
    /\ pc' = "while"
    /\ UNCHANGED <<hero_links, hero_roles, cursor, unparsable, fetch_count>>

ScrapeNext ==
    \/ EnterPass
    \/ ExitLoop
    \/ FetchParsed
    \/ FetchUnparsed
    \/ SkipScraped
    \/ EndPass

\* The loop is sequential code that keeps running: a step that is possible is taken.
InitScrape == ScrapeInit /\ EncodeIdle /\ WealthIdle /\ FightsIdle /\ CarryIdle

SpecScrape == InitScrape /\ [][ScrapeNext]_vars /\ WF_vars(ScrapeNext)

AllLinks == Range(hero_links)

AllScraped == DOMAIN hero_roles = AllLinks

\* C10 as stated: whatever the number of hero links, the loop eventually
\* terminates with every hero link scraped.
C10_AnyNumberOfLinks == <>(pc = "done" /\ AllScraped)

\* C10, amended: a page that fails to parse does not abort the run (the loop
\* moves on to the next link), a page in hero_roles is never requested again,
\* and when the index page returns exactly ExpectedHeroes links the loop
\* eventually terminates with every link scraped.
C10_ExactlyExpectedLinks ==
    /\ [][\A l \in AllLinks :
            /\ l \in DOMAIN hero_roles => fetch_count'[l] = fetch_count[l]
            /\ (fetch_count'[l] # fetch_count[l] /\ l \notin DOMAIN hero_roles')
                  => (pc' = "for" /\ cursor' = cursor + 1)]_vars
    /\ (Len(hero_links) = ExpectedHeroes) => <>(pc = "done" /\ AllScraped)

\* The loop has ended over exactly ExpectedHeroes links, all scraped, one of
\* them on its second request.
C10_Witness ==
    /\ pc = "done"
    /\ Len(hero_links) = ExpectedHeroes
    /\ AllScraped
    /\ \E l \in AllLinks : fetch_count[l] = 2

=============================================================================
